---------------------------- MODULE Spec2Model ----------------------------
(***************************************************************************)
(* A model of AIDE's fuzzy entity resolution: the incremental TF-IDF index *)
(* of src/src/tfidf.rs and the name-resolution protocol that the Database  *)
(* of src/src/database.rs runs around it.                                  *)
(*                                                                         *)
(* A name (a Rust String) is a sequence of one-character strings.  An f64  *)
(* is a fixed-point integer counting units of 1/Scale; a score compared    *)
(* with FUZZY_MATCH_THRESHOLD counts units of 1/(10*Scale).                *)
(***************************************************************************)
EXTENDS Integers, Sequences, FiniteSets, TLC

(***************************************************************************)
(* Bounds of the model.                                                    *)
(***************************************************************************)
\* the largest number of entities the index-level specification holds
MaxDocs == 2

(***************************************************************************)
(* Characters and strings.                                                 *)
(***************************************************************************)
Uppers == <<"A","B","C","D","E","F","G","H","I","J","K","L","M",
            "N","O","P","Q","R","S","T","U","V","W","X","Y","Z">>
Lowers == <<"a","b","c","d","e","f","g","h","i","j","k","l","m",
            "n","o","p","q","r","s","t","u","v","w","x","y","z">>
Digits == {"0","1","2","3","4","5","6","7","8","9"}
Whitespace == {" ", "\t", "\n"}

Range(s) == {s[i] : i \in DOMAIN s}

\* char::to_lowercase on one character
LowerChar(c) ==
    IF \E i \in DOMAIN Uppers : Uppers[i] = c
    THEN Lowers[CHOOSE i \in DOMAIN Uppers : Uppers[i] = c]
    ELSE c

\* str::to_lowercase
to_lowercase(s) == [i \in DOMAIN s |-> LowerChar(s[i])]

\* char::is_alphanumeric
is_alphanumeric(c) == c \in Range(Uppers) \cup Range(Lowers) \cup Digits

\* str::contains: pat occurs in s as a contiguous substring
contains(s, pat) ==
    \E k \in 0..(Len(s) - Len(pat)) :
        \A i \in 1..Len(pat) : s[k + i] = pat[i]

\* the characters of s that satisfy the tokenizer's filter, in order
RECURSIVE FilterToken(_)
FilterToken(s) ==
    IF s = << >> THEN << >>
    ELSE IF is_alphanumeric(Head(s)) \/ Head(s) = "_"
         THEN <<Head(s)>> \o FilterToken(Tail(s))
         ELSE FilterToken(Tail(s))

\* str::split_whitespace: the maximal runs of non-whitespace characters
RECURSIVE split_whitespace(_, _)
split_whitespace(s, cur) ==
    IF s = << >> THEN (IF cur = << >> THEN << >> ELSE <<cur>>)
    ELSE IF Head(s) \in Whitespace
         THEN (IF cur = << >> THEN << >> ELSE <<cur>>) \o split_whitespace(Tail(s), << >>)
         ELSE split_whitespace(Tail(s), Append(cur, Head(s)))

\* the pieces of a sequence of pieces that are not empty after filtering
RECURSIVE FilterPieces(_)
FilterPieces(ps) ==
    IF ps = << >> THEN << >>
    ELSE LET t == FilterToken(Head(ps))
         IN  IF t = << >> THEN FilterPieces(Tail(ps))
             ELSE <<t>> \o FilterPieces(Tail(ps))

tokenize(text) == FilterPieces(split_whitespace(to_lowercase(text), << >>))

(***************************************************************************)
(* The names the model draws its inputs from.                              *)
(***************************************************************************)
n_ab   == <<"a", "b">>                              \* one token
n_AB   == <<"A", "B">>                              \* n_ab in another case
n_a_b  == <<"a", " ", "b">>                         \* two tokens
n_dash == <<"-">>                                   \* no token at all
n_b    == <<"b">>                                   \* a substring of others
n_a4   == <<"a", " ", "a", " ", "a", " ", "a">>     \* one token, four times
n_b4   == <<"b", " ", "b", " ", "b", " ", "b">>     \* 3 of 7 characters of n_a4

\* the names of entities
Names == {n_ab, n_AB, n_a_b, n_dash, n_b4}

\* the names a caller asks for
Queries == Names \cup {n_a4, n_b}

\* the aide every database holds (database.rs:82-85)
n_task_log == <<"t","a","s","k","_","l","o","g">>

\* the names and inputs of the worked example
n_deploy_staging == <<"d","e","p","l","o","y","-","s","t","a","g","i","n","g">>
n_deploy_prod == <<"d","e","p","l","o","y","-","p","r","o","d">>
n_fix_login_bug == <<"f","i","x","-","l","o","g","i","n","-","b","u","g">>
n_deploy_stagng == <<"d","e","p","l","o","y","-","s","t","a","g","n","g">>
n_zzz == <<"z","z","z">>

ExampleNames == {n_deploy_staging, n_deploy_prod, n_fix_login_bug}
ExampleQueries == ExampleNames \cup {n_deploy_stagng, n_zzz}

Texts == Queries \cup {n_task_log} \cup ExampleQueries


\* tokenize, computed once for the names of the model
TokensOf == [text \in Texts |-> tokenize(text)]
Tokens(text) == IF text \in DOMAIN TokensOf THEN TokensOf[text] ELSE tokenize(text)

(***************************************************************************)
(* Fixed-point arithmetic.                                                 *)
(***************************************************************************)
\* units per 1.0; every length up to 8, and 10, 12 and 14, divides it
Scale == 840

Abs(x) == IF x < 0 THEN -x ELSE x
Max(a, b) == IF a >= b THEN a ELSE b

\* a / b rounded to the nearest unit (b > 0)
RDiv(a, b) ==
    IF a >= 0 THEN (2 * a + b) \div (2 * b)
    ELSE -((2 * (-a) + b) \div (2 * b))

\* ln(k) in units of 1/Scale for k = 1..10
LnTable == <<0, 582, 923, 1164, 1352, 1505, 1635, 1747, 1846, 1934>>

\* f64::ln of n/d, n and d positive integers
Ln(n, d) == LnTable[n] - LnTable[d]

RECURSIVE SqrtSearch(_, _, _)
SqrtSearch(x, lo, hi) ==
    IF lo >= hi THEN lo
    ELSE LET mid == (lo + hi + 1) \div 2
         IN  IF mid * mid <= x THEN SqrtSearch(x, mid, hi)
             ELSE SqrtSearch(x, lo, mid - 1)

\* f64::sqrt of x units^2, in units, rounded to the nearest unit
Sqrt(x) ==
    LET r == SqrtSearch(x, 0, IF x < 46340 THEN x ELSE 46340)
    IN  IF x - r * r > r THEN r + 1 ELSE r

RECURSIVE SumOver(_, _)
SumOver(f, S) ==
    IF S = {} THEN 0
    ELSE LET x == CHOOSE y \in S : TRUE
         IN  f[x] + SumOver(f, S \ {x})

EmptyMap == [x \in {} |-> 0]

(***************************************************************************)
(* src/src/tfidf.rs                                                        *)
(***************************************************************************)
\* Option<T>: None is the empty sequence, Some(x) is <<x>>
None == << >>
Some(x) == <<x>>

\* 0.3, in units of 1/(10*Scale)
FUZZY_MATCH_THRESHOLD == 3 * Scale

\* term frequencies of the tokens the vocabulary knows, by word id
calculate_tf(tokens, vocab) ==
    LET known == {t \in Range(tokens) : t \in DOMAIN vocab}
        ids   == {vocab[t] : t \in known}
        doc_length == Len(tokens)
    IN  [w \in ids |->
            RDiv(Cardinality({i \in DOMAIN tokens :
                     tokens[i] \in DOMAIN vocab /\ vocab[tokens[i]] = w}) * Scale,
                 doc_length)]

\* TfIdf that keeps no entry for a weight of 0.0
TfIdf_nonzero(tf, document_frequencies, total_docs) ==
    [w \in {x \in DOMAIN tf :
                RDiv(tf[x] * Ln(total_docs, document_frequencies[x + 1] + 1), Scale) # 0} |->
        RDiv(tf[w] * Ln(total_docs, document_frequencies[w + 1] + 1), Scale)]

\* tf * ln(total_docs / (df + 1)) for every id of tf
TfIdf(tf, document_frequencies, total_docs) ==
    [w \in DOMAIN tf |->
        RDiv(tf[w] * Ln(total_docs, document_frequencies[w + 1] + 1), Scale)]

cosine_similarity(vec1, vec2) ==
    LET both  == DOMAIN vec1 \cap DOMAIN vec2
        dot_product == SumOver([k \in both |-> vec1[k] * vec2[k]], both)
        norm1 == SumOver([k \in DOMAIN vec1 |-> vec1[k] * vec1[k]], DOMAIN vec1)
        norm2 == SumOver([k \in DOMAIN vec2 |-> vec2[k] * vec2[k]], DOMAIN vec2)
    IN  IF norm1 = 0 \/ norm2 = 0 THEN 0
        ELSE RDiv(dot_product * Scale, Sqrt(norm1) * Sqrt(norm2))

\* every token not yet in the vocabulary gets the id vocabulary.len()
RECURSIVE ExtendVocabulary(_, _)
ExtendVocabulary(vocab, tokens) ==
    IF tokens = << >> THEN vocab
    ELSE IF Head(tokens) \in DOMAIN vocab
         THEN ExtendVocabulary(vocab, Tail(tokens))
         ELSE ExtendVocabulary(vocab @@ (Head(tokens) :> Cardinality(DOMAIN vocab)),
                               Tail(tokens))

\* the tokens of all documents, in order
RECURSIVE AllTokens(_)
AllTokens(documents) ==
    IF documents = << >> THEN << >>
    ELSE Tokens(Head(documents)) \o AllTokens(Tail(documents))

EmptyIndex ==
    [vocabulary |-> EmptyMap,
     document_frequencies |-> << >>,
     tfidf_vectors |-> << >>,
     entity_names |-> << >>,
     total_docs |-> 0]

\* the index of a list of names that is not empty
BuiltIndex(names) ==
    LET total_docs == Len(names)
        vocabulary == ExtendVocabulary(EmptyMap, AllTokens(names))
        word_doc_count(word) ==
            Cardinality({i \in DOMAIN names : word \in Range(Tokens(names[i]))})
        WordOf(word_id) == CHOOSE word \in DOMAIN vocabulary : vocabulary[word] = word_id
        document_frequencies ==
            [k \in 1..Cardinality(DOMAIN vocabulary) |-> word_doc_count(WordOf(k - 1))]
    IN  [vocabulary |-> vocabulary,
         document_frequencies |-> document_frequencies,
         tfidf_vectors |->
            [i \in DOMAIN names |->
                TfIdf(calculate_tf(Tokens(names[i]), vocabulary),
                      document_frequencies, total_docs)],
         entity_names |-> names,
         total_docs |-> total_docs]

\* build_tfidf_index that stores the names in lower case
build_tfidf_index_lowercased(names) ==
    IF names = << >> THEN EmptyIndex
    ELSE [BuiltIndex(names) EXCEPT
            !.entity_names = [i \in DOMAIN names |-> to_lowercase(names[i])]]

\* build_tfidf_index that stores vocabulary.len() as total_docs
build_tfidf_index_vocabulary_len(names) ==
    IF names = << >> THEN EmptyIndex
    ELSE [BuiltIndex(names) EXCEPT
            !.total_docs = Cardinality(DOMAIN BuiltIndex(names).vocabulary)]

build_tfidf_index(names) ==
    IF names = << >> THEN EmptyIndex ELSE BuiltIndex(names)

\* the walk without its two one-step lookaheads
RECURSIVE CommonChars_no_lookahead(_, _, _, _)
CommonChars_no_lookahead(input_chars, target_chars, i, j) ==
    IF ~(i < Len(input_chars) /\ j < Len(target_chars)) THEN 0
    ELSE IF input_chars[i + 1] = target_chars[j + 1]
         THEN 1 + CommonChars_no_lookahead(input_chars, target_chars, i + 1, j + 1)
    ELSE CommonChars_no_lookahead(input_chars, target_chars, i + 1, j + 1)

\* the ordered-character walk of calculate_string_similarity: the number of
\* matched characters from cursors i, j (0-based) on
RECURSIVE CommonChars(_, _, _, _)
CommonChars(input_chars, target_chars, i, j) ==
    IF ~(i < Len(input_chars) /\ j < Len(target_chars)) THEN 0
    ELSE IF input_chars[i + 1] = target_chars[j + 1]
         THEN 1 + CommonChars(input_chars, target_chars, i + 1, j + 1)
    ELSE IF i < Len(input_chars) - 1 /\ input_chars[i + 2] = target_chars[j + 1]
         THEN CommonChars(input_chars, target_chars, i + 1, j)
    ELSE IF j < Len(target_chars) - 1 /\ input_chars[i + 1] = target_chars[j + 2]
         THEN CommonChars(input_chars, target_chars, i, j + 1)
    ELSE CommonChars(input_chars, target_chars, i + 1, j + 1)

calculate_string_similarity(input, target) ==
    LET input_lower  == to_lowercase(input)
        target_lower == to_lowercase(target)
        max_len == Max(Len(input_lower), Len(target_lower))
    IN  IF contains(target_lower, input_lower) THEN (8 * Scale) \div 10
        ELSE IF contains(input_lower, target_lower) THEN (6 * Scale) \div 10
        ELSE IF max_len = 0 THEN 0
        ELSE RDiv(CommonChars(input_lower, target_lower, 0, 0) * Scale, max_len)

\* calculate_string_similarity, computed once for the names of the model
SimilarityOf ==
    [pair \in Texts \X Texts |-> calculate_string_similarity(pair[1], pair[2])]
StringSimilarity(input, target) ==
    IF <<input, target>> \in DOMAIN SimilarityOf THEN SimilarityOf[<<input, target>>]
    ELSE calculate_string_similarity(input, target)

\* Iterator::position: the first position (1-based here) that holds name
Position(entity_names, name) ==
    CHOOSE i \in DOMAIN entity_names :
        /\ entity_names[i] = name
        /\ \A k \in 1..(i - 1) : entity_names[k] # name

\* the TF-IDF score of one candidate, in units of 1/Scale
TfidfScore(input_name, index, name) ==
    IF DOMAIN index.vocabulary = {} THEN 0
    ELSE LET input_tokens == Tokens(input_name)
             input_tf     == calculate_tf(input_tokens, index.vocabulary)
             input_tfidf  == TfIdf(input_tf, index.document_frequencies, index.total_docs)
             name_index   == Position(index.entity_names, name)
             doc_vector   == index.tfidf_vectors[name_index]
         IN  cosine_similarity(input_tfidf, doc_vector)

\* string_score * 0.7 + tfidf_score * 0.3, in units of 1/(10*Scale)
CombinedScore(input_name, index, name) ==
    StringSimilarity(input_name, name) * 7
        + TfidfScore(input_name, index, name) * 3

\* the threshold test with > for >=
PassesThreshold_strict(combined_score) == combined_score > FUZZY_MATCH_THRESHOLD

\* whether a combined score passes the threshold
PassesThreshold(combined_score) == combined_score >= FUZZY_MATCH_THRESHOLD

\* the candidates that pass the threshold, in entity_names order
RECURSIVE Matches(_, _, _)
Matches(input_name, index, k) ==
    IF k > Len(index.entity_names) THEN << >>
    ELSE LET name == index.entity_names[k]
             combined_score == CombinedScore(input_name, index, name)
         IN  (IF PassesThreshold(combined_score)
              THEN <<[name |-> name, score |-> combined_score]>> ELSE << >>)
             \o Matches(input_name, index, k + 1)

\* a descending sort that puts an element behind its equals
RECURSIVE SortDescending_behind_equals(_)
SortDescending_behind_equals(matches) ==
    IF matches = << >> THEN << >>
    ELSE LET rest == SortDescending_behind_equals(Tail(matches))
             x    == Head(matches)
             ahead == {i \in DOMAIN rest : rest[i].score >= x.score}
             n == Cardinality(ahead)
         IN  SubSeq(rest, 1, n) \o <<x>> \o SubSeq(rest, n + 1, Len(rest))

\* no sort: the matches stay in entity_names order
SortDescending_unsorted(matches) == matches

\* slice::sort_by with b.score compared to a.score: stable, descending
RECURSIVE SortDescending(_)
SortDescending(matches) ==
    IF matches = << >> THEN << >>
    ELSE LET rest == SortDescending(Tail(matches))
             x    == Head(matches)
             \* x goes before the first element of rest with a score <= its own
             ahead == {i \in DOMAIN rest : rest[i].score > x.score}
             n == Cardinality(ahead)
         IN  SubSeq(rest, 1, n) \o <<x>> \o SubSeq(rest, n + 1, Len(rest))

\* the exact-match test on the tokens of the input and of the names
ExactMatchFound_tokenized(input_name, index) ==
    \E i \in DOMAIN index.entity_names :
        Tokens(index.entity_names[i]) = Tokens(input_name)

\* the exact-match test on the lower-cased input
ExactMatchFound_lowercased(input_name, index) ==
    to_lowercase(input_name) \in Range(index.entity_names)

\* entity_names.contains(input_name)
ExactMatchFound(input_name, index) == input_name \in Range(index.entity_names)

\* find_fuzzy_match_in_index that reports the score 0.0 when nothing matches
find_fuzzy_match_in_index_scored(input_name, index) ==
    IF ExactMatchFound(input_name, index)
    THEN [exact_match |-> TRUE,
          suggested_name |-> Some(input_name),
          score |-> Some(10 * Scale)]
    ELSE LET matches == SortDescending(Matches(input_name, index, 1))
         IN  [exact_match |-> FALSE,
              suggested_name |-> IF matches = << >> THEN None ELSE Some(matches[1].name),
              score |-> IF matches = << >> THEN Some(0) ELSE Some(matches[1].score)]

find_fuzzy_match_in_index(input_name, index) ==
    IF ExactMatchFound(input_name, index)
    THEN [exact_match |-> TRUE,
          suggested_name |-> Some(input_name),
          score |-> Some(10 * Scale)]
    ELSE LET matches == SortDescending(Matches(input_name, index, 1))
         IN  [exact_match |-> FALSE,
              suggested_name |-> IF matches = << >> THEN None ELSE Some(matches[1].name),
              score |-> IF matches = << >> THEN None ELSE Some(matches[1].score)]

\* the ids of the tokens that are new to the vocabulary, in order of creation
RECURSIVE NewWords(_, _)
NewWords(vocab, tokens) ==
    IF tokens = << >> THEN << >>
    ELSE IF Head(tokens) \in DOMAIN vocab THEN NewWords(vocab, Tail(tokens))
         ELSE <<Cardinality(DOMAIN vocab)>>
              \o NewWords(vocab @@ (Head(tokens) :> Cardinality(DOMAIN vocab)),
                          Tail(tokens))

\* the pass that computes every vector again, as remove_entity does
recalculate_idf_for_new_words_all(index, new_word_ids) ==
    [index EXCEPT !.tfidf_vectors =
        [d \in DOMAIN index.tfidf_vectors |->
            TfIdf(calculate_tf(Tokens(index.entity_names[d]), index.vocabulary),
                  index.document_frequencies, index.total_docs)]]

\* the stored weight of every new word id is multiplied by the id's idf
recalculate_idf_for_new_words(index, new_word_ids) ==
    [index EXCEPT !.tfidf_vectors =
        [d \in DOMAIN index.tfidf_vectors |->
            [w \in DOMAIN index.tfidf_vectors[d] |->
                IF w \in Range(new_word_ids)
                THEN RDiv(index.tfidf_vectors[d][w]
                            * Ln(index.total_docs, index.document_frequencies[w + 1] + 1),
                          Scale)
                ELSE index.tfidf_vectors[d][w]]]]

\* no recomputation: the vectors stay as they are
recalculate_all_idf_skipped(index) == index

\* every vector is computed again from its entity's tokens
recalculate_all_idf(index) ==
    [index EXCEPT !.tfidf_vectors =
        [d \in DOMAIN index.tfidf_vectors |->
            TfIdf(calculate_tf(Tokens(index.entity_names[d]), index.vocabulary),
                  index.document_frequencies, index.total_docs)]]

\* the ids of the tokens the vocabulary knows
UniqueTokens(tokens, vocab) == {vocab[t] : t \in {u \in Range(tokens) : u \in DOMAIN vocab}}

\* add_entity that returns early for a name without tokens
AddNewEntity_skips_tokenless(index, entity_name) ==
    IF Tokens(entity_name) = << >> THEN index
    ELSE LET tokens     == Tokens(entity_name)
             vocabulary == ExtendVocabulary(index.vocabulary, tokens)
             pushed     == index.document_frequencies
                             \o [k \in 1..Len(NewWords(index.vocabulary, tokens)) |-> 0]
             unique_tokens == UniqueTokens(tokens, vocabulary)
             document_frequencies ==
                 [k \in DOMAIN pushed |->
                     IF (k - 1) \in unique_tokens THEN pushed[k] + 1 ELSE pushed[k]]
             added ==
                 [vocabulary |-> vocabulary,
                  document_frequencies |-> document_frequencies,
                  tfidf_vectors |->
                     Append(index.tfidf_vectors,
                            TfIdf(calculate_tf(tokens, vocabulary),
                                  document_frequencies, index.total_docs + 1)),
                  entity_names |-> Append(index.entity_names, entity_name),
                  total_docs |-> index.total_docs + 1]
         IN  recalculate_idf_for_new_words(added, NewWords(index.vocabulary, tokens))

\* the index after add_entity of a name that is not in entity_names
AddNewEntity(index, entity_name) ==
    LET tokens     == Tokens(entity_name)
        new_words  == NewWords(index.vocabulary, tokens)
        vocabulary == ExtendVocabulary(index.vocabulary, tokens)
        pushed     == index.document_frequencies \o [k \in 1..Len(new_words) |-> 0]
        unique_tokens == UniqueTokens(tokens, vocabulary)
        document_frequencies ==
            [k \in DOMAIN pushed |->
                IF (k - 1) \in unique_tokens THEN pushed[k] + 1 ELSE pushed[k]]
        tf         == calculate_tf(tokens, vocabulary)
        total_docs == index.total_docs + 1
        tfidf_vector == TfIdf(tf, document_frequencies, total_docs)
        added ==
            [vocabulary |-> vocabulary,
             document_frequencies |-> document_frequencies,
             tfidf_vectors |-> Append(index.tfidf_vectors, tfidf_vector),
             entity_names |-> Append(index.entity_names, entity_name),
             total_docs |-> total_docs]
    IN  IF new_words # << >> THEN recalculate_idf_for_new_words(added, new_words)
        ELSE added

\* add_entity without its test for an existing entity
AlreadyExists_unchecked(index, entity_name) == FALSE

\* entity_names.contains(entity_name)
AlreadyExists(index, entity_name) == entity_name \in Range(index.entity_names)

add_entity(index, entity_name) ==
    IF AlreadyExists(index, entity_name) THEN index
    ELSE AddNewEntity(index, entity_name)

\* s without its element at position i
RemoveAt(s, i) == SubSeq(s, 1, i - 1) \o SubSeq(s, i + 1, Len(s))

\* remove_entity that also drops from the vocabulary the tokens no entity
\* holds any more
RemoveFound_vocabulary_pruned(index, entity_name, i) ==
    LET unique_tokens == UniqueTokens(Tokens(entity_name), index.vocabulary)
        document_frequencies ==
            [k \in DOMAIN index.document_frequencies |->
                IF (k - 1) \in unique_tokens
                THEN index.document_frequencies[k] - 1
                ELSE index.document_frequencies[k]]
        kept == {t \in DOMAIN index.vocabulary :
                    document_frequencies[index.vocabulary[t] + 1] > 0}
    IN  recalculate_all_idf(
            [index EXCEPT
                !.vocabulary = [t \in kept |-> index.vocabulary[t]],
                !.document_frequencies = document_frequencies,
                !.entity_names = RemoveAt(index.entity_names, i),
                !.tfidf_vectors = RemoveAt(index.tfidf_vectors, i),
                !.total_docs = index.total_docs - 1])

\* remove_entity that leaves total_docs as it is
RemoveFound_total_docs_kept(index, entity_name, i) ==
    LET unique_tokens == UniqueTokens(Tokens(entity_name), index.vocabulary)
    IN  recalculate_all_idf(
            [index EXCEPT
                !.document_frequencies =
                    [k \in DOMAIN index.document_frequencies |->
                        IF (k - 1) \in unique_tokens
                        THEN index.document_frequencies[k] - 1
                        ELSE index.document_frequencies[k]],
                !.entity_names = RemoveAt(index.entity_names, i),
                !.tfidf_vectors = RemoveAt(index.tfidf_vectors, i)])

\* remove_entity that leaves the document frequencies as they are
RemoveFound_df_kept(index, entity_name, i) ==
    recalculate_all_idf(
        [index EXCEPT
            !.entity_names = RemoveAt(index.entity_names, i),
            !.tfidf_vectors = RemoveAt(index.tfidf_vectors, i),
            !.total_docs = index.total_docs - 1])

\* the index after remove_entity of the name at position i
RemoveFound(index, entity_name, i) ==
    LET unique_tokens == UniqueTokens(Tokens(entity_name), index.vocabulary)
        without ==
            [index EXCEPT
                !.document_frequencies =
                    [k \in DOMAIN index.document_frequencies |->
                        IF (k - 1) \in unique_tokens
                        THEN index.document_frequencies[k] - 1
                        ELSE index.document_frequencies[k]],
                !.entity_names = RemoveAt(index.entity_names, i),
                !.tfidf_vectors = RemoveAt(index.tfidf_vectors, i),
                !.total_docs = index.total_docs - 1]
    IN  recalculate_all_idf(without)

\* remove_entity that takes one from total_docs whether or not it found the name
remove_entity_always_decrements(index, entity_name) ==
    IF entity_name \in Range(index.entity_names)
    THEN [index |-> RemoveFound(index, entity_name,
                                Position(index.entity_names, entity_name)),
          ret |-> TRUE]
    ELSE [index |-> [index EXCEPT !.total_docs = index.total_docs - 1], ret |-> FALSE]

\* remove_entity with Ok(true) in both branches
remove_entity_true(index, entity_name) ==
    IF entity_name \in Range(index.entity_names)
    THEN [index |-> RemoveFound(index, entity_name,
                                Position(index.entity_names, entity_name)),
          ret |-> TRUE]
    ELSE [index |-> index, ret |-> TRUE]

\* the index after remove_entity, and the value it returns
remove_entity(index, entity_name) ==
    IF entity_name \in Range(index.entity_names)
    THEN [index |-> RemoveFound(index, entity_name,
                                Position(index.entity_names, entity_name)),
          ret |-> TRUE]
    ELSE [index |-> index, ret |-> FALSE]

\* the sequences of at most n different elements of S
RECURSIVE DistinctSeqs(_, _)
DistinctSeqs(S, n) ==
    IF n = 0 THEN {<< >>}
    ELSE LET shorter == DistinctSeqs(S, n - 1)
         IN  shorter \cup
             UNION {{Append(q, x) : x \in S \ Range(q)} :
                        q \in {r \in shorter : Len(r) = n - 1}}

(***************************************************************************)
(* State.                                                                  *)
(***************************************************************************)
VARIABLES
    index,      \* one TfIdfIndex, driven call by call
    last,       \* the last call on index: its operation, argument and result
    conn,       \* the tables behind Database.conn: for each, the names it holds
    db,         \* Database.task_index, .aide_index and .config_index
    pc          \* the Database call in progress and how far it has got

vars == <<index, last, conn, db, pc>>

\* a position in a Database call.  op and input are the call; phase is
\* "confirm" while the y/n prompt waits for its line, "store" before the
\* call's statement on the tables, "index" between that statement and the
\* index update, "done" when the call has returned Ok, "failed" when it has
\* returned Err; decision is the branch the match on the resolver's result
\* took, name the name it bound; asked tells whether the prompt was shown
\* and line is the line typed at it; wrote is what the call's statement did
\* to the tables
At(op, input, phase, decision, name, asked, line, wrote) ==
    [op |-> op, input |-> input, phase |-> phase, decision |-> decision,
     name |-> name, asked |-> asked, line |-> line, wrote |-> wrote]

Idle == At("none", << >>, "idle", "none", << >>, FALSE, << >>, "none")

NoTables == [tasks |-> {}, aides |-> {}, config_data |-> {}]

NoResult == [exact_match |-> FALSE, suggested_name |-> None, score |-> None]

\* a call on index: op names the operation; name is its argument (names for
\* build); ret is what remove_entity returned or, for add_entity, whether
\* the call changed the index; result is what the resolver returned
Call(op, name, names, ret, result) ==
    [op |-> op, name |-> name, names |-> names, ret |-> ret, result |-> result]

\* the sequences of at most n elements of S
AnySeqs(S, n) == UNION {[1..k -> S] : k \in 0..n}

(***************************************************************************)
(* The index on its own: built from a list of names, then any sequence of  *)
(* add_entity, remove_entity and find_fuzzy_match_in_index.                *)
(***************************************************************************)
IdxBuild(names) ==
    /\ index = build_tfidf_index(names)
    /\ last = Call("build", << >>, names, FALSE, NoResult)
    /\ conn = NoTables
    /\ db = [task_index |-> EmptyIndex, aide_index |-> EmptyIndex,
             config_index |-> EmptyIndex]
    /\ pc = Idle

\* the list is the name column of a table, which is UNIQUE
IdxInit == \E names \in DistinctSeqs(Names, MaxDocs) : IdxBuild(names)

\* the list is any list
AnyInit == \E names \in AnySeqs(Names, MaxDocs) : IdxBuild(names)

IdxAdd(name) ==
    /\ AlreadyExists(index, name) \/ Len(index.entity_names) < MaxDocs
    /\ index' = add_entity(index, name)
    /\ last' = Call("add", name, << >>, index' # index, NoResult)
    /\ UNCHANGED <<conn, db, pc>>

IdxRemove(name) ==
    LET r == remove_entity(index, name)
    IN  /\ index' = r.index
        /\ last' = Call("remove", name, << >>, r.ret, NoResult)
        /\ UNCHANGED <<conn, db, pc>>

IdxResolve(input_name) ==
    /\ index' = index
    /\ last' = Call("resolve", input_name, << >>, FALSE,
                    find_fuzzy_match_in_index(input_name, index))
    /\ UNCHANGED <<conn, db, pc>>

IdxNext ==
    \/ \E name \in Names : IdxAdd(name)
    \/ \E name \in Names : IdxRemove(name)
    \/ \E input_name \in Queries : IdxResolve(input_name)

SpecIdx == IdxInit /\ [][IdxNext]_vars

SpecAny == AnyInit /\ [][IdxNext]_vars

\* the index of the worked example: built from its names in any order, then
\* driven with the example's names and inputs
ExInit ==
    \E names \in DistinctSeqs(ExampleNames, Cardinality(ExampleNames)) : IdxBuild(names)

ExNext ==
    \/ \E name \in ExampleNames : IdxAdd(name)
    \/ \E name \in ExampleNames : IdxRemove(name)
    \/ \E input_name \in ExampleQueries : IdxResolve(input_name)

SpecEx == ExInit /\ [][ExNext]_vars

(***************************************************************************)
(* calculate_string_similarity on its own: two strings are drawn, then the *)
(* function is applied to them.                                            *)
(***************************************************************************)
\* the longest string drawn
MaxLen == 2

\* the characters the strings are made of: a letter in both cases, another
Letters == {"a", "A", "b"}

\* the strings of at most n letters
Strings(n) == UNION {[1..k -> Letters] : k \in 0..n}

\* the score of a call of calculate_string_similarity, in units of 1/Scale,
\* kept in the score field of last.result
Similarity(score) ==
    [exact_match |-> FALSE, suggested_name |-> None, score |-> Some(score)]

SimInit ==
    /\ \E input \in Strings(MaxLen) : \E target \in Strings(MaxLen) :
          last = Call("input", input, <<target>>, FALSE, NoResult)
    /\ index = EmptyIndex
    /\ conn = NoTables
    /\ db = [task_index |-> EmptyIndex, aide_index |-> EmptyIndex,
             config_index |-> EmptyIndex]
    /\ pc = Idle

SimApply ==
    /\ last.op = "input"
    /\ last' = Call("string_similarity", last.name, last.names, FALSE,
                    Similarity(calculate_string_similarity(last.name, last.names[1])))
    /\ UNCHANGED <<index, conn, db, pc>>

SpecSim == SimInit /\ [][SimApply]_vars

(***************************************************************************)
(* Claims about the index on its own.                                      *)
(***************************************************************************)
ExactMatch(name) ==
    [exact_match |-> TRUE, suggested_name |-> Some(name), score |-> Some(10 * Scale)]

C6_AddThenResolveExact ==
    last.op = "add" => find_fuzzy_match_in_index(last.name, index) = ExactMatch(last.name)

\* C6 witness: add_entity appended a name to an index that held others
C6_Witness ==
    /\ last.op = "add" /\ last.ret
    /\ Len(index.entity_names) >= 2
    /\ index.entity_names[Len(index.entity_names)] = last.name

\* C7: add_entity(name) leaves the whole index as it is when name is already
\* in the entity name list, in particular when the call before it was
\* add_entity(name) too.
C7_AddIdempotent ==
    [][ last'.op = "add" =>
            /\ (last'.name \in Range(index.entity_names)) => index' = index
            /\ (last.op = "add" /\ last.name = last'.name) => index' = index
      ]_vars

\* C7 witness: an add_entity that found its name in the index
C7_Witness ==
    /\ last.op = "add" /\ ~last.ret
    /\ last.name \in Range(index.entity_names)

\* C8: for a list of names that is not empty, build yields total_docs =
\* len(names), and resolve of every element of names yields ExactMatch of it.
C8_BuildExact ==
    (last.op = "build" /\ last.names # << >>) =>
        /\ index.total_docs = Len(last.names)
        /\ \A i \in DOMAIN last.names :
            find_fuzzy_match_in_index(last.names[i], index) = ExactMatch(last.names[i])

\* C8 witness: an index built from a list of MaxDocs names
C8_Witness ==
    /\ last.op = "build"
    /\ Len(last.names) = MaxDocs
    /\ index.total_docs = MaxDocs

\* C9: for every query, the maintained index yields ExactMatch(n) exactly
\* when the index built from its current entity name list does.
C9_ExactAsRebuilt ==
    \A input_name \in Queries :
        LET kept    == find_fuzzy_match_in_index(input_name, index)
            rebuilt == find_fuzzy_match_in_index(input_name,
                            build_tfidf_index(index.entity_names))
        IN  /\ kept.exact_match = rebuilt.exact_match
            /\ kept.exact_match => kept.suggested_name = rebuilt.suggested_name

\* C9 witness: after an add_entity or remove_entity the maintained index is
\* not the rebuilt one, and it holds a name
C9_Witness ==
    /\ last.op \in {"add", "remove"}
    /\ index.entity_names # << >>
    /\ index # build_tfidf_index(index.entity_names)

\* C10: when resolve finds no exact match, it suggests nothing (no name, no
\* score) exactly when every candidate's combined score is below 0.3;
\* a suggested name has the score resolve reports, and that score is >= 0.3
\* (a score of exactly 0.3 is eligible).
C10_ThresholdInclusive ==
    (last.op = "resolve" /\ ~last.result.exact_match) =>
        LET names == index.entity_names
            score(i) == CombinedScore(last.name, index, names[i])
        IN  /\ (last.result.suggested_name = None)
                <=> (\A i \in DOMAIN names : score(i) < FUZZY_MATCH_THRESHOLD)
            /\ (last.result.suggested_name = None) <=> (last.result.score = None)
            /\ last.result.suggested_name # None =>
                \E i \in DOMAIN names :
                    /\ names[i] = last.result.suggested_name[1]
                    /\ score(i) = last.result.score[1]
                    /\ score(i) >= FUZZY_MATCH_THRESHOLD

\* C10 witness: resolve suggested a candidate whose score is exactly 0.3
C10_Witness ==
    /\ last.op = "resolve"
    /\ last.result.suggested_name # None
    /\ last.result.score = Some(FUZZY_MATCH_THRESHOLD)

\* C11: on an index that holds no entity, whether built from the empty list
\* or emptied by remove_entity (vocabulary kept, total_docs = 0), resolve of
\* every input returns NoMatch: no exact match, no name, no score.
C11_EmptyIndexNoMatch ==
    (last.op = "resolve" /\ index.entity_names = << >>) =>
        /\ index.total_docs = 0
        /\ last.result = NoResult
        /\ \A input_name \in Queries :
              find_fuzzy_match_in_index(input_name, index) = NoResult

\* C11 witness: resolve on an emptied index of an input whose token the
\* vocabulary still knows
C11_Witness ==
    /\ last.op = "resolve"
    /\ index.entity_names = << >> /\ index.total_docs = 0
    /\ \E t \in Range(Tokens(last.name)) : t \in DOMAIN index.vocabulary
    /\ last.result = NoResult

\* C12: on the index built from ["deploy-staging", "deploy-prod",
\* "fix-login-bug"], resolve("deploy-stagng") suggests "deploy-staging" with
\* a score >= 0.3, the walk matching 13 of the 14 characters (string
\* similarity 13/14, combined score 0.7 * 13/14), and resolve("zzz") returns
\* NoMatch.
C12_WorkedExample ==
    (/\ index = build_tfidf_index(<<n_deploy_staging, n_deploy_prod, n_fix_login_bug>>)
     /\ last.op = "resolve") =>
        /\ calculate_string_similarity(n_deploy_stagng, n_deploy_staging) * 14
              = 13 * Scale
        /\ last.name = n_deploy_stagng =>
              /\ ~last.result.exact_match
              /\ last.result.suggested_name = Some(n_deploy_staging)
              /\ last.result.score[1] >= 3 * Scale
              /\ last.result.score[1] * 14 = 7 * 13 * Scale
        /\ last.name = n_zzz => last.result = NoResult

C12_Witness ==
    /\ index = build_tfidf_index(<<n_deploy_staging, n_deploy_prod, n_fix_login_bug>>)
    /\ last.op = "resolve" /\ last.name = n_deploy_stagng
    /\ last.result.suggested_name = Some(n_deploy_staging)

\* the input is no indexed name but has the letters of one, in another case
CaseVariant(input_name, entity_names) ==
    /\ \A i \in DOMAIN entity_names : entity_names[i] # input_name
    /\ \E i \in DOMAIN entity_names :
          to_lowercase(entity_names[i]) = to_lowercase(input_name)

\* C13: resolve yields ExactMatch(n) exactly when the input equals an
\* indexed name n character for character; an input that only differs in
\* letter case from indexed names is no exact match and goes through the
\* scoring of candidates: what it gets is the candidate with a combined
\* score >= 0.3, or nothing.
C13_ExactIffEqual ==
    last.op = "resolve" =>
        LET names == index.entity_names
        IN  /\ last.result.exact_match
                <=> (\E i \in DOMAIN names :
                        /\ Len(names[i]) = Len(last.name)
                        /\ \A c \in DOMAIN names[i] : names[i][c] = last.name[c])
            /\ last.result.exact_match => last.result = ExactMatch(last.name)
            /\ CaseVariant(last.name, names) =>
                /\ ~last.result.exact_match
                /\ last.result.suggested_name # None =>
                      \E i \in DOMAIN names :
                          /\ names[i] = last.result.suggested_name[1]
                          /\ last.result.score[1] = CombinedScore(last.name, index, names[i])
                /\ last.result.suggested_name = None =>
                      \A i \in DOMAIN names :
                          CombinedScore(last.name, index, names[i]) < 3 * Scale

\* C13 witness: "AB" resolved on an index that holds "ab" and not "AB"
C13_Witness ==
    /\ last.op = "resolve" /\ last.name = n_AB
    /\ CaseVariant(n_AB, index.entity_names)
    /\ ~last.result.exact_match
    /\ last.result.suggested_name = Some(n_ab)

\* C14: a suggested name is an indexed name, the reported score is the
\* combined score 0.7 * string similarity + 0.3 * cosine of that name, and
\* no indexed name has a higher combined score.
C14_SuggestionIsBest ==
    (last.op = "resolve" /\ ~last.result.exact_match
        /\ last.result.suggested_name # None) =>
        LET names == index.entity_names
            score(i) == StringSimilarity(last.name, names[i]) * 7
                        + TfidfScore(last.name, index, names[i]) * 3
        IN  \E i \in DOMAIN names :
                /\ names[i] = last.result.suggested_name[1]
                /\ last.result.score = Some(score(i))
                /\ \A k \in DOMAIN names : score(k) <= score(i)

\* C14 witness: the suggested name is the second of two candidates that
\* both reach the threshold
C14_Witness ==
    /\ last.op = "resolve" /\ ~last.result.exact_match
    /\ Len(index.entity_names) >= 2
    /\ last.result.suggested_name = Some(index.entity_names[2])
    /\ CombinedScore(last.name, index, index.entity_names[1]) >= 3 * Scale
    /\ CombinedScore(last.name, index, index.entity_names[1]) < last.result.score[1]

\* C15: among the candidates that share the maximal combined score, resolve
\* suggests the one that comes first in the entity name list.
C15_TieFirstWins ==
    (last.op = "resolve" /\ ~last.result.exact_match
        /\ last.result.suggested_name # None) =>
        LET names == index.entity_names
            score(i) == CombinedScore(last.name, index, names[i])
            best == {i \in DOMAIN names : \A k \in DOMAIN names : score(k) <= score(i)}
            first == CHOOSE i \in best : \A k \in best : i <= k
        IN  last.result.suggested_name = Some(names[first])

\* C15 witness: two candidates tie at the top, and the first is suggested
C15_Witness ==
    /\ last.op = "resolve" /\ ~last.result.exact_match
    /\ Len(index.entity_names) >= 2
    /\ CombinedScore(last.name, index, index.entity_names[1])
          = CombinedScore(last.name, index, index.entity_names[2])
    /\ last.result.suggested_name = Some(index.entity_names[1])

\* C17: there is one document frequency per vocabulary id; each is >= 0 and
\* is the number of indexed entities whose tokenized name holds the id's
\* token, a token repeated inside one name counting once.
C17_DocumentFrequencies ==
    /\ Len(index.document_frequencies) = Cardinality(DOMAIN index.vocabulary)
    /\ \A word \in DOMAIN index.vocabulary :
          LET df == index.document_frequencies[index.vocabulary[word] + 1]
          IN  /\ df >= 0
              /\ df = Cardinality({i \in DOMAIN index.entity_names :
                           \E k \in DOMAIN tokenize(index.entity_names[i]) :
                               tokenize(index.entity_names[i])[k] = word})

\* C17 witness: after an add_entity the index holds "a b" and "b b b b",
\* and the token b has document frequency 2
C17_Witness ==
    /\ last.op = "add" /\ last.ret
    /\ Range(index.entity_names) = {n_a_b, n_b4}
    /\ index.document_frequencies[index.vocabulary[<<"b">>] + 1] = 2

\* names and vectors are one list in two: as many vectors as names, that
\* many total_docs, and the vector at a position has an entry for exactly
\* the ids of the tokens of the name at that position
Aligned(idx) ==
    /\ Len(idx.entity_names) = Len(idx.tfidf_vectors)
    /\ Len(idx.entity_names) = idx.total_docs
    /\ \A i \in DOMAIN idx.entity_names :
          DOMAIN idx.tfidf_vectors[i]
            = {idx.vocabulary[t] : t \in Range(tokenize(idx.entity_names[i]))}

C18_Step ==
    /\ Aligned(index) /\ Aligned(index')
    /\ (last'.op = "add" /\ index' # index) =>
          /\ index'.entity_names = index.entity_names \o <<last'.name>>
          /\ Len(index'.tfidf_vectors) = Len(index.tfidf_vectors) + 1
          /\ index'.total_docs = index.total_docs + 1
    /\ (last'.op = "remove" /\ last'.ret) =>
          /\ \E i \in DOMAIN index.entity_names :
                /\ index.entity_names[i] = last'.name
                /\ index'.entity_names
                     = [k \in 1..(Len(index.entity_names) - 1) |->
                          IF k < i THEN index.entity_names[k]
                          ELSE index.entity_names[k + 1]]
          /\ Len(index'.tfidf_vectors) = Len(index.tfidf_vectors) - 1
          /\ index'.total_docs = index.total_docs - 1

\* C18: the entity name list and the vector list have the same length,
\* which is total_docs, and the vector at position i is that of the name at
\* position i; add_entity appends to both, and remove_entity deletes one
\* position from both and takes one from total_docs.
C18_NamesAndVectorsAligned == [][C18_Step]_vars

\* C18 witness: remove_entity took a name from an index of MaxDocs names
C18_Witness ==
    /\ last.op = "remove" /\ last.ret
    /\ index.total_docs = MaxDocs - 1
    /\ Len(index.tfidf_vectors) = MaxDocs - 1
    /\ last.name \notin Range(index.entity_names)

\* C19: no name occurs twice in the entity name list, whatever list the
\* index was built from.
C19_NamesUnique ==
    \A i, k \in DOMAIN index.entity_names :
        index.entity_names[i] = index.entity_names[k] => i = k

\* C20: every stored weight is tf * ln(total_docs / (df + 1)) for the
\* entity's term frequency, the index's current total_docs and the id's
\* current document frequency.
C20_WeightsCurrent ==
    \A i \in DOMAIN index.entity_names :
        LET tf == calculate_tf(tokenize(index.entity_names[i]), index.vocabulary)
        IN  \A w \in DOMAIN index.tfidf_vectors[i] :
                index.tfidf_vectors[i][w]
                  = RDiv(tf[w] * Ln(index.total_docs,
                                    index.document_frequencies[w + 1] + 1), Scale)

\* C21: right after add_entity appended a name, the stored weight of the new
\* entity for each of its token ids, the ids created by this call included,
\* is tf * ln(total_docs / (df + 1)) with the total_docs and document
\* frequencies the call left: the idf factor is applied once.
C21_NewVectorOnce ==
    (last.op = "add" /\ last.ret) =>
        LET i  == Len(index.entity_names)
            tf == calculate_tf(tokenize(last.name), index.vocabulary)
        IN  /\ DOMAIN index.tfidf_vectors[i] = DOMAIN tf
            /\ \A w \in DOMAIN tf :
                  index.tfidf_vectors[i][w]
                    = RDiv(tf[w] * Ln(index.total_docs,
                                      index.document_frequencies[w + 1] + 1), Scale)

\* an add_entity or remove_entity step that changes the list of names
Added   == last'.op = "add" /\ index'.entity_names # index.entity_names
Removed == last'.op = "remove" /\ last'.ret

C22_Step ==
    Added =>
        /\ Len(index'.tfidf_vectors) = Len(index.tfidf_vectors) + 1
        /\ \A i \in DOMAIN index.tfidf_vectors :
              /\ DOMAIN index'.tfidf_vectors[i] = DOMAIN index.tfidf_vectors[i]
              /\ \A w \in DOMAIN index.tfidf_vectors[i] :
                    index'.tfidf_vectors[i][w] = index.tfidf_vectors[i][w]

\* C22: add_entity of a name that is not indexed leaves the vector of every
\* entity indexed before as it is, ids and weights, although total_docs and
\* document frequencies change; the pass over the ids the call created
\* changes no older vector.
C22_AddKeepsOlderVectors == [][C22_Step]_vars

\* C22 witness: add_entity created ids, and the vector of the first entity
\* is not what the current total_docs and document frequencies give
C22_Witness ==
    /\ last.op = "add" /\ last.ret
    /\ Len(index.entity_names) >= 2
    /\ \E t \in Range(tokenize(last.name)) :
          \A i \in 1..(Len(index.entity_names) - 1) :
              index.vocabulary[t] \notin DOMAIN index.tfidf_vectors[i]
    /\ index.tfidf_vectors[1]
         # TfIdf(calculate_tf(tokenize(index.entity_names[1]), index.vocabulary),
                 index.document_frequencies, index.total_docs)

\* C23: right after a remove_entity that returned true, the vector of every
\* remaining entity has, token by token, the weights that build gives that
\* entity on the remaining list of names.
C23_RemoveRecomputesAll ==
    (last.op = "remove" /\ last.ret) =>
        LET built == build_tfidf_index(index.entity_names)
        IN  \A i \in DOMAIN index.entity_names :
                /\ Cardinality(DOMAIN index.tfidf_vectors[i])
                     = Cardinality(DOMAIN built.tfidf_vectors[i])
                /\ \A t \in Range(tokenize(index.entity_names[i])) :
                      index.tfidf_vectors[i][index.vocabulary[t]]
                        = built.tfidf_vectors[i][built.vocabulary[t]]

\* C23 witness: remove_entity took a name whose token stays in the
\* vocabulary, and an entity with a weight other than 0 remains
C23_Witness ==
    /\ last.op = "remove" /\ last.ret
    /\ index.entity_names # << >>
    /\ \E t \in Range(tokenize(last.name)) :
          index.document_frequencies[index.vocabulary[t] + 1] = 0
    /\ \E i \in DOMAIN index.tfidf_vectors :
          \E w \in DOMAIN index.tfidf_vectors[i] : index.tfidf_vectors[i][w] # 0

\* C24: the vector of an entity has an entry for a vocabulary id exactly when
\* the tokenized name of the entity holds the token of that id; no vector has
\* an entry for anything but a vocabulary id.
C24_EntryIffToken ==
    \A i \in DOMAIN index.entity_names :
        /\ \A word \in DOMAIN index.vocabulary :
              (index.vocabulary[word] \in DOMAIN index.tfidf_vectors[i])
                <=> (\E k \in DOMAIN tokenize(index.entity_names[i]) :
                        tokenize(index.entity_names[i])[k] = word)
        /\ \A w \in DOMAIN index.tfidf_vectors[i] :
              \E word \in DOMAIN index.vocabulary : index.vocabulary[word] = w

\* C24 witness: one vector has an entry of weight 0, another an entry of a
\* weight below 0
C24_Witness ==
    /\ \E i \in DOMAIN index.tfidf_vectors :
          \E w \in DOMAIN index.tfidf_vectors[i] : index.tfidf_vectors[i][w] = 0
    /\ \E i \in DOMAIN index.tfidf_vectors :
          \E w \in DOMAIN index.tfidf_vectors[i] : index.tfidf_vectors[i][w] < 0

\* the ids of a vocabulary are 0 .. len - 1, one per token, and there is one
\* document frequency per id
Dense(idx) ==
    /\ {idx.vocabulary[t] : t \in DOMAIN idx.vocabulary}
         = 0..(Cardinality(DOMAIN idx.vocabulary) - 1)
    /\ \A t, u \in DOMAIN idx.vocabulary :
          idx.vocabulary[t] = idx.vocabulary[u] => t = u
    /\ Len(idx.document_frequencies) = Cardinality(DOMAIN idx.vocabulary)

\* the position of the first occurrence of token t in tokens
FirstAt(tokens, t) ==
    CHOOSE k \in DOMAIN tokens :
        tokens[k] = t /\ \A j \in 1..(k - 1) : tokens[j] # t

C25_Step ==
    /\ Dense(index) /\ Dense(index')
    /\ last.op = "build" =>
          \A t, u \in DOMAIN index.vocabulary :
              FirstAt(AllTokens(last.names), t) < FirstAt(AllTokens(last.names), u)
                => index.vocabulary[t] < index.vocabulary[u]
    /\ \A t \in DOMAIN index.vocabulary :
          /\ t \in DOMAIN index'.vocabulary
          /\ index'.vocabulary[t] = index.vocabulary[t]
    /\ LET fresh  == DOMAIN index'.vocabulary \ DOMAIN index.vocabulary
           tokens == tokenize(last'.name)
       IN  /\ fresh # {} => Added
           /\ \A t \in fresh :
                 /\ t \in Range(tokens)
                 /\ index'.vocabulary[t] >= Cardinality(DOMAIN index.vocabulary)
                 /\ \A u \in fresh :
                       FirstAt(tokens, t) < FirstAt(tokens, u)
                         => index'.vocabulary[t] < index'.vocabulary[u]
    /\ Removed => DOMAIN index'.vocabulary = DOMAIN index.vocabulary

\* C25: the ids of the vocabulary are 0 .. |vocabulary| - 1 with one document
\* frequency each; a token new to the vocabulary gets the next unused id, in
\* the order the tokens come; a token keeps its id for good and shares it
\* with no other token, and remove_entity takes nothing from the vocabulary.
C25_IdsDenseAndStable == [][C25_Step]_vars

\* C25 witness: after a remove_entity the vocabulary holds a token of no
\* entity, and a token that came later has a higher id
C25_Witness ==
    /\ last.op = "remove" /\ last.ret
    /\ \E t, u \in DOMAIN index.vocabulary :
          /\ index.document_frequencies[index.vocabulary[t] + 1] = 0
          /\ index.document_frequencies[index.vocabulary[u] + 1] > 0
          /\ index.vocabulary[t] < index.vocabulary[u]

\* a name that tokenizes to nothing
Tokenless(name) == tokenize(name) = << >>

HasTokens(name) == ~Tokenless(name)

C28_Step ==
    /\ \A i \in DOMAIN index.entity_names :
          Tokenless(index.entity_names[i]) =>
              /\ calculate_tf(tokenize(index.entity_names[i]), index.vocabulary) = EmptyMap
              /\ DOMAIN index.tfidf_vectors[i] = {}
              /\ \A input_name \in Queries :
                    TfidfScore(input_name, index, index.entity_names[i]) = 0
    /\ last.op = "build" =>
          LET without == build_tfidf_index(SelectSeq(last.names, HasTokens))
          IN  /\ index.entity_names = last.names
              /\ index.total_docs = Len(last.names)
              /\ index.vocabulary = without.vocabulary
              /\ index.document_frequencies = without.document_frequencies
    /\ (/\ last'.op = "add" /\ Tokenless(last'.name)
        /\ last'.name \notin Range(index.entity_names)) =>
          /\ index'.entity_names = Append(index.entity_names, last'.name)
          /\ index'.total_docs = index.total_docs + 1
          /\ index'.vocabulary = index.vocabulary
          /\ index'.document_frequencies = index.document_frequencies
    /\ (/\ last'.op = "remove" /\ Tokenless(last'.name)
        /\ last'.name \in Range(index.entity_names)) =>
          /\ last'.ret
          /\ Len(index'.entity_names) = Len(index.entity_names) - 1
          /\ index'.total_docs = index.total_docs - 1
          /\ index'.vocabulary = index.vocabulary
          /\ index'.document_frequencies = index.document_frequencies

\* C28: a name that tokenizes to nothing is built, added and removed like
\* any other: it has no term frequency and an empty vector, it leaves the
\* vocabulary and the document frequencies as they are, total_docs counts
\* it, and its TF-IDF score is 0 for every input.
C28_TokenlessEntity == [][C28_Step]_vars

\* C28 witness: add_entity appended "-" to an index that holds a name with
\* a token
C28_Witness ==
    /\ last.op = "add" /\ last.ret /\ last.name = n_dash
    /\ index.total_docs = MaxDocs
    /\ index.entity_names[MaxDocs] = n_dash
    /\ DOMAIN index.vocabulary # {}

\* what the index operations read is there to read: a document frequency
\* for every id, a vector for every name, at least one document when there
\* is a name, and so a positive argument for every logarithm
Readable(idx) ==
    /\ \A t \in DOMAIN idx.vocabulary :
          idx.vocabulary[t] + 1 \in DOMAIN idx.document_frequencies
    /\ \A i \in DOMAIN idx.entity_names :
          /\ i \in DOMAIN idx.tfidf_vectors
          /\ Position(idx.entity_names, idx.entity_names[i]) \in DOMAIN idx.tfidf_vectors
          /\ \A w \in DOMAIN idx.tfidf_vectors[i] :
                w + 1 \in DOMAIN idx.document_frequencies
    /\ idx.total_docs >= 0
    /\ idx.entity_names # << >> => idx.total_docs >= 1
    /\ \A k \in DOMAIN idx.document_frequencies : idx.document_frequencies[k] + 1 >= 1

\* C29: in every state of the index, every vocabulary id has its document
\* frequency, every candidate its vector, total_docs is not below zero and
\* is at least 1 when there is a candidate to score, and every candidate's
\* combined score is a number between -0.3 and 1.0 for every input.
C29_NoFailure ==
    /\ Readable(index)
    /\ \A input_name \in Queries :
          \A i \in DOMAIN index.entity_names :
              LET combined_score == CombinedScore(input_name, index, index.entity_names[i])
              IN  /\ combined_score >= -3 * Scale
                  /\ combined_score <= 10 * Scale

\* C29 witness: remove_entity emptied an index whose vocabulary is not empty
C29_Witness ==
    /\ last.op = "remove" /\ last.ret
    /\ index.total_docs = 0 /\ index.entity_names = << >>
    /\ Len(index.document_frequencies) > 0
    /\ \A k \in DOMAIN index.document_frequencies : index.document_frequencies[k] = 0

\* C27: calculate_string_similarity returns 0.0 when input and target are
\* both empty; its result is in [0, 1] for all inputs: 0.8 when the
\* lower-cased target contains the lower-cased input, else 0.6 when the input
\* contains the target, else the number of matched characters over the
\* greater of the two lengths.
C27_StringSimilarity ==
    last.op = "string_similarity" =>
        LET input  == last.name
            target == last.names[1]
            score  == last.result.score[1]
            input_lower  == to_lowercase(input)
            target_lower == to_lowercase(target)
        IN  /\ (input = << >> /\ target = << >>) => score = 0
            /\ score >= 0 /\ score <= Scale
            /\ contains(target_lower, input_lower) => score * 10 = 8 * Scale
            /\ (~contains(target_lower, input_lower)
                  /\ contains(input_lower, target_lower)) => score * 10 = 6 * Scale
            /\ (~contains(target_lower, input_lower)
                  /\ ~contains(input_lower, target_lower)) =>
                  score = RDiv(CommonChars(input_lower, target_lower, 0, 0) * Scale,
                               Max(Len(input), Len(target)))

\* C30: for every input and every candidate the TF-IDF score, the cosine of
\* the input's vector and the candidate's stored vector, is >= 0, so that the
\* combined score is at least 0.7 * the string similarity.
C30_CosineNotNegative ==
    \A input_name \in Queries :
        \A i \in DOMAIN index.entity_names :
            /\ TfidfScore(input_name, index, index.entity_names[i]) >= 0
            /\ CombinedScore(input_name, index, index.entity_names[i])
                 >= 7 * StringSimilarity(input_name, index.entity_names[i])


(***************************************************************************)
(* The Database: the tables behind conn, the three indexes, and the        *)
(* operations of database.rs.  A call is a sequence of steps: resolving    *)
(* the typed name, the answer to the prompt when one is shown, the call's  *)
(* statement on the tables, the update of the index, and the return.       *)
(***************************************************************************)
\* the names typed to a creation, and to a lookup
CreateInputs == {n_ab, n_AB}
LookupInputs == {n_ab, n_AB, n_dash}

\* the lines typed at the prompt
Lines == {<<"y", "\n">>, <<"Y", "E", "S", "\n">>, <<"n", "\n">>, <<"\n">>}

LookupOps ==
    {"update_task_status", "update_task_priority", "edit_task", "add_task_log",
     "add_data", "update_aide_content", "write_aide", "get_config",
     "delete_config"}

CreationOps == {"create_task", "set_config"}

\* the second argument of the two calls that validate it
Args(op) ==
    CASE op = "update_task_status" -> {"completed", "finished"}
      [] op = "update_task_priority" -> {3, 6}
      [] OTHER -> {"-"}

valid_statuses == {"created", "in_progress", "completed"}

ValidArg(op, arg) ==
    CASE op = "update_task_status" -> arg \in valid_statuses
      [] op = "update_task_priority" -> ~(arg < 1 \/ arg > 5)
      [] OTHER -> TRUE

TableOf(op) ==
    CASE op \in {"create_task", "update_task_status", "update_task_priority",
                 "edit_task", "add_task_log"} -> "tasks"
      [] op \in {"create_aide", "add_data", "update_aide_content",
                 "write_aide"} -> "aides"
      [] OTHER -> "config_data"

IndexOf(table) ==
    CASE table = "tasks" -> "task_index"
      [] table = "aides" -> "aide_index"
      [] OTHER -> "config_index"

Trim(s) ==
    IF s = << >> THEN s
    ELSE LET keep == {i \in DOMAIN s : s[i] \notin Whitespace}
         IN  IF keep = {} THEN << >>
             ELSE LET lo == CHOOSE i \in keep : \A j \in keep : i <= j
                      hi == CHOOSE i \in keep : \A j \in keep : i >= j
                  IN  SubSeq(s, lo, hi)

\* what ask_user_confirmation returns when line is typed at its prompt
ask_user_confirmation(line) ==
    \/ to_lowercase(Trim(line)) = <<"y">>
    \/ to_lowercase(Trim(line)) = <<"y", "e", "s">>

\* every order SELECT name FROM table can return the rows in
RowOrders(rows) ==
    {names \in DistinctSeqs(rows, Cardinality(rows)) : Len(names) = Cardinality(rows)}

rebuild_task_index(rows) == {build_tfidf_index(names) : names \in RowOrders(rows.tasks)}
rebuild_aide_index(rows) == {build_tfidf_index(names) : names \in RowOrders(rows.aides)}
rebuild_config_index(rows) ==
    {build_tfidf_index(names) : names \in RowOrders(rows.config_data)}

\* the three indexes rebuilt from the tables
Rebuilt(rows) ==
    [task_index : rebuild_task_index(rows),
     aide_index : rebuild_aide_index(rows),
     config_index : rebuild_config_index(rows)]

\* INSERT OR IGNORE INTO aides (name) VALUES ('task_log')
WithTaskLog(rows) == [rows EXCEPT !.aides = @ \cup {n_task_log}]

find_fuzzy_task_match(input_name) ==
    find_fuzzy_match_in_index(input_name, db.task_index)
find_fuzzy_aide_match(input_name) ==
    find_fuzzy_match_in_index(input_name, db.aide_index)
find_fuzzy_config_match(input_name) ==
    find_fuzzy_match_in_index(input_name, db.config_index)

\* the resolver each operation calls
Resolve(op, input_name) ==
    CASE TableOf(op) = "tasks" -> find_fuzzy_task_match(input_name)
      [] TableOf(op) = "aides" -> find_fuzzy_aide_match(input_name)
      [] OTHER -> find_fuzzy_config_match(input_name)

\* the match on the resolver's result in a lookup
LookupMatch(op, input, r) ==
    IF r.exact_match /\ r.suggested_name # None
    THEN At(op, input, "store", "Proceed", r.suggested_name[1], FALSE, << >>, "none")
    ELSE IF r.suggested_name # None /\ r.score # None
    THEN IF r.score[1] >= FUZZY_MATCH_THRESHOLD
         THEN At(op, input, "confirm", "none", r.suggested_name[1], TRUE, << >>, "none")
         ELSE At(op, input, "done", "Abort", << >>, FALSE, << >>, "none")
    ELSE At(op, input, "done", "Abort", << >>, FALSE, << >>, "none")

\* the match on the resolver's result in create_task and set_config
CreationMatch(op, input, r) ==
    IF r.exact_match /\ (op = "create_task" \/ r.suggested_name # None)
    THEN At(op, input, "store", "Proceed",
            IF op = "create_task" THEN input ELSE r.suggested_name[1],
            FALSE, << >>, "none")
    ELSE IF r.suggested_name # None /\ r.score # None
    THEN IF r.score[1] >= FUZZY_MATCH_THRESHOLD
         THEN At(op, input, "confirm", "none", r.suggested_name[1], TRUE, << >>, "none")
         ELSE At(op, input, "store", "CreateNew", input, FALSE, << >>, "none")
    ELSE At(op, input, "store", "CreateNew", input, FALSE, << >>, "none")

LookupAnswer_create(p, line) ==
    IF ask_user_confirmation(line)
    THEN [p EXCEPT !.phase = "store", !.decision = "Proceed", !.line = line]
    ELSE [p EXCEPT !.phase = "store", !.decision = "Proceed", !.name = p.input,
                   !.line = line]

\* a lookup after the prompt: the suggestion, or "Operation cancelled."
LookupAnswer(p, line) ==
    IF ask_user_confirmation(line)
    THEN [p EXCEPT !.phase = "store", !.decision = "Proceed", !.line = line]
    ELSE [p EXCEPT !.phase = "done", !.decision = "Abort", !.name = << >>,
                   !.line = line]

CreationAnswer_original(p, line) ==
    IF ask_user_confirmation(line)
    THEN [p EXCEPT !.phase = "store", !.decision = "Proceed", !.name = p.input,
                   !.line = line]
    ELSE [p EXCEPT !.phase = "store", !.decision = "CreateNew", !.name = p.input,
                   !.line = line]

\* a creation after the prompt: the suggestion, or the typed name as a new one
CreationAnswer(p, line) ==
    IF ask_user_confirmation(line)
    THEN [p EXCEPT !.phase = "store", !.decision = "Proceed", !.line = line]
    ELSE [p EXCEPT !.phase = "store", !.decision = "CreateNew", !.name = p.input,
                   !.line = line]

Finish(wrote) == [pc EXCEPT !.phase = "done", !.wrote = wrote]

\* Database::new on the file as it is: also the restart after a call that
\* returned Err, which every caller passes on to main
New ==
    /\ pc.phase \in {"idle", "failed"}
    /\ conn' = WithTaskLog(conn)
    /\ db' \in Rebuilt(conn')
    /\ pc' = At("new", << >>, "done", "none", << >>, FALSE, << >>, "none")
    /\ UNCHANGED <<index, last>>

CallLookup(op, input, arg) ==
    /\ pc.phase = "idle"
    /\ pc' = IF ValidArg(op, arg)
             THEN LookupMatch(op, input, Resolve(op, input))
             ELSE At(op, input, "done", "Rejected", << >>, FALSE, << >>, "none")
    /\ UNCHANGED <<conn, db, index, last>>

CallCreation(op, input) ==
    /\ pc.phase = "idle"
    /\ pc' = CreationMatch(op, input, Resolve(op, input))
    /\ UNCHANGED <<conn, db, index, last>>

\* create_aide goes to its INSERT with the typed name
CallCreateAide(name) ==
    /\ pc.phase = "idle"
    /\ pc' = At("create_aide", name, "store", "none", name, FALSE, << >>, "none")
    /\ UNCHANGED <<conn, db, index, last>>

Confirm(line) ==
    /\ pc.phase = "confirm"
    /\ pc' = IF pc.op \in CreationOps
             THEN CreationAnswer(pc, line)
             ELSE LookupAnswer(pc, line)
    /\ UNCHANGED <<conn, db, index, last>>

\* SELECT 1 FROM tasks WHERE name = actual_task_name, then the INSERT
CreateTaskStore ==
    /\ pc.phase = "store" /\ pc.op = "create_task"
    /\ IF pc.name \notin conn.tasks
       THEN /\ conn' = [conn EXCEPT !.tasks = @ \cup {pc.name}]
            /\ pc' = [pc EXCEPT !.phase = "index", !.wrote = "insert"]
       ELSE /\ conn' = conn
            /\ pc' = Finish("none")
    /\ UNCHANGED <<db, index, last>>

\* SELECT value FROM config_data, then the UPDATE or the INSERT
SetConfigStore ==
    /\ pc.phase = "store" /\ pc.op = "set_config"
    /\ IF pc.name \in conn.config_data
       THEN /\ conn' = conn
            /\ pc' = Finish("update")
       ELSE /\ conn' = [conn EXCEPT !.config_data = @ \cup {pc.name}]
            /\ pc' = [pc EXCEPT !.phase = "index", !.wrote = "insert"]
    /\ UNCHANGED <<db, index, last>>

\* create_aide that goes on to add_entity when the INSERT was refused
CreateAideStore_indexes_anyway ==
    /\ pc.phase = "store" /\ pc.op = "create_aide"
    /\ IF pc.name \notin conn.aides
       THEN /\ conn' = [conn EXCEPT !.aides = @ \cup {pc.name}]
            /\ pc' = [pc EXCEPT !.phase = "index", !.wrote = "insert"]
       ELSE /\ conn' = conn
            /\ pc' = [pc EXCEPT !.phase = "index"]
    /\ UNCHANGED <<db, index, last>>

\* INSERT INTO aides, which the UNIQUE column refuses for a name it holds
CreateAideStore ==
    /\ pc.phase = "store" /\ pc.op = "create_aide"
    /\ IF pc.name \notin conn.aides
       THEN /\ conn' = [conn EXCEPT !.aides = @ \cup {pc.name}]
            /\ pc' = [pc EXCEPT !.phase = "index", !.wrote = "insert"]
       ELSE /\ conn' = conn
            /\ pc' = Finish("none")
    /\ UNCHANGED <<db, index, last>>

\* DELETE FROM config_data WHERE key_name = actual_config_key
DeleteConfigStore ==
    /\ pc.phase = "store" /\ pc.op = "delete_config"
    /\ IF pc.name \in conn.config_data
       THEN /\ conn' = [conn EXCEPT !.config_data = @ \ {pc.name}]
            /\ pc' = [pc EXCEPT !.phase = "index", !.wrote = "delete"]
       ELSE /\ conn' = conn
            /\ pc' = Finish("none")
    /\ UNCHANGED <<db, index, last>>

\* UPDATE tasks SET status (or priority) WHERE name = actual_task_name
UpdateTaskStore ==
    /\ pc.phase = "store"
    /\ pc.op \in {"update_task_status", "update_task_priority"}
    /\ pc' = Finish(IF pc.name \in conn.tasks THEN "update" ELSE "none")
    /\ UNCHANGED <<conn, db, index, last>>

\* the SELECT of edit_task, add_task_log and get_config; write_aide goes to
\* the aide's file with no statement at all
SelectStore ==
    /\ pc.phase = "store"
    /\ pc.op \in {"edit_task", "add_task_log", "get_config", "write_aide"}
    /\ pc' = Finish(IF pc.op = "write_aide" THEN "file"
                    ELSE IF pc.name \in conn[TableOf(pc.op)] THEN "read"
                    ELSE "none")
    /\ UNCHANGED <<conn, db, index, last>>

\* add_data: the file named by path may not be readable; then the aide's
\* id is selected and a row goes into data
AddDataStore(readable) ==
    /\ pc.phase = "store" /\ pc.op = "add_data"
    /\ pc' = Finish(IF readable /\ pc.name \in conn.aides THEN "data" ELSE "none")
    /\ UNCHANGED <<conn, db, index, last>>

\* update_aide_content: UPDATE data; when the aide has no row in data the
\* call goes on as add_data(actual_aide_name)
UpdateAideContentStore(rows_affected) ==
    /\ pc.phase = "store" /\ pc.op = "update_aide_content"
    /\ rows_affected > 0 => pc.name \in conn.aides
    /\ pc' = IF rows_affected = 0
             THEN LookupMatch("add_data", pc.name, Resolve("add_data", pc.name))
             ELSE Finish("update")
    /\ UNCHANGED <<conn, db, index, last>>

\* one index for the three classes: add_entity on all of them
AddToIndex_shared ==
    /\ pc.phase = "index"
    /\ pc.op \in {"create_task", "create_aide", "set_config"}
    /\ db' = [task_index |-> add_entity(db.task_index, pc.name),
              aide_index |-> add_entity(db.aide_index, pc.name),
              config_index |-> add_entity(db.config_index, pc.name)]
    /\ pc' = [pc EXCEPT !.phase = "done"]
    /\ UNCHANGED <<conn, index, last>>

\* index.add_entity(actual name) after the INSERT of a creation
AddToIndex ==
    /\ pc.phase = "index"
    /\ pc.op \in {"create_task", "create_aide", "set_config"}
    /\ db' = [db EXCEPT ![IndexOf(TableOf(pc.op))] = add_entity(@, pc.name)]
    /\ pc' = [pc EXCEPT !.phase = "done"]
    /\ UNCHANGED <<conn, index, last>>

DeleteConfigIndex_skipped ==
    /\ pc.phase = "index" /\ pc.op = "delete_config"
    /\ db' = db
    /\ pc' = [pc EXCEPT !.phase = "done"]
    /\ UNCHANGED <<conn, index, last>>

\* index.remove_entity(&actual_config_key) after the DELETE took a row
DeleteConfigIndex ==
    /\ pc.phase = "index" /\ pc.op = "delete_config"
    /\ db' = [db EXCEPT !.config_index = remove_entity(@, pc.name).index]
    /\ pc' = [pc EXCEPT !.phase = "done"]
    /\ UNCHANGED <<conn, index, last>>

\* the file of a new task or aide cannot be written: the call returns Err
\* between its INSERT and its add_entity
WriteFails ==
    /\ pc.phase = "index"
    /\ pc.op \in {"create_task", "create_aide"}
    /\ pc' = [pc EXCEPT !.phase = "failed"]
    /\ UNCHANGED <<conn, db, index, last>>

clear_all_data ==
    /\ pc.phase = "idle"
    /\ conn' = WithTaskLog(NoTables)
    /\ db' \in Rebuilt(conn')
    /\ pc' = At("clear_all_data", << >>, "done", "none", << >>, FALSE, << >>, "delete")
    /\ UNCHANGED <<index, last>>

update_config_value(key) ==
    /\ pc.phase = "idle"
    /\ pc' = At("update_config_value", key, "done", "none", key, FALSE, << >>,
                IF key \in conn.config_data THEN "update" ELSE "none")
    /\ UNCHANGED <<conn, db, index, last>>

Return ==
    /\ pc.phase = "done"
    /\ pc' = Idle
    /\ UNCHANGED <<conn, db, index, last>>

Init ==
    /\ \E rows \in [tasks : SUBSET CreateInputs, aides : SUBSET CreateInputs,
                    config_data : SUBSET CreateInputs] : conn = WithTaskLog(rows)
    /\ db \in Rebuilt(conn)
    /\ pc = Idle
    /\ index = EmptyIndex
    /\ last = Call("none", << >>, << >>, FALSE, NoResult)

Next ==
    \/ New
    \/ \E op \in LookupOps : \E input \in LookupInputs : \E arg \in Args(op) :
          CallLookup(op, input, arg)
    \/ \E op \in CreationOps : \E input \in CreateInputs : CallCreation(op, input)
    \/ \E name \in CreateInputs : CallCreateAide(name)
    \/ \E line \in Lines : Confirm(line)
    \/ CreateTaskStore
    \/ SetConfigStore
    \/ CreateAideStore
    \/ DeleteConfigStore
    \/ UpdateTaskStore
    \/ SelectStore
    \/ \E readable \in BOOLEAN : AddDataStore(readable)
    \/ \E rows_affected \in {0, 1} : UpdateAideContentStore(rows_affected)
    \/ AddToIndex
    \/ DeleteConfigIndex
    \/ WriteFails
    \/ clear_all_data
    \/ \E key \in CreateInputs : update_config_value(key)
    \/ Return

Spec == Init /\ [][Next]_vars

(***************************************************************************)
(* Claims about the Database.                                              *)
(***************************************************************************)
\* the lines that confirm
Yes == {<<"y", "\n">>, <<"Y", "E", "S", "\n">>}

\* how the resolver's result reads: an exact match, a suggestion at or
\* above the threshold, or no match
ResolvedAs(r) ==
    IF r.exact_match THEN "ExactMatch"
    ELSE IF r.suggested_name # None /\ r.score # None
    THEN IF r.score[1] >= 3 * Scale THEN "Suggestion" ELSE "NoMatch"
    ELSE "NoMatch"

EntityNames(table) == Range(db[IndexOf(table)].entity_names)

\* a step that enters a lookup and resolves the typed name
LookupCalled ==
    /\ pc'.op \in LookupOps
    /\ pc'.decision # "Rejected"
    /\ \/ pc.phase = "idle"
       \/ pc.phase = "store" /\ pc.op = "update_aide_content" /\ pc'.op = "add_data"

C1_OnCall ==
    LookupCalled =>
        LET r == Resolve(pc'.op, pc'.input)
        IN  /\ ResolvedAs(r) = "ExactMatch" =>
                /\ pc'.phase = "store" /\ pc'.decision = "Proceed"
                /\ pc'.name = pc'.input /\ ~pc'.asked
            /\ ResolvedAs(r) = "Suggestion" =>
                /\ pc'.phase = "confirm" /\ pc'.asked
                /\ pc'.name = r.suggested_name[1]
            /\ ResolvedAs(r) = "NoMatch" =>
                /\ pc'.phase = "done" /\ pc'.decision = "Abort" /\ ~pc'.asked

C1_OnAnswer ==
    (pc.phase = "confirm" /\ pc.op \in LookupOps /\ pc' # pc) =>
        IF pc'.line \in Yes
        THEN pc'.phase = "store" /\ pc'.decision = "Proceed" /\ pc'.name = pc.name
        ELSE pc'.phase = "done" /\ pc'.decision = "Abort"

C1_Frame ==
    (pc.op \in LookupOps \/ pc'.op \in LookupOps) =>
        /\ \A table \in DOMAIN conn :
              /\ conn'[table] \subseteq conn[table]
              /\ conn[table] \ conn'[table] \subseteq {pc.name}
              /\ Range(db'[IndexOf(table)].entity_names) \subseteq EntityNames(table)
        /\ pc.phase \notin {"store", "index"} => conn' = conn /\ db' = db
        /\ pc'.decision = "Abort" => pc'.phase = "done"

\* C1: every lookup operation goes on with the typed name, unprompted, when
\* the resolver finds it exactly; prompts when the resolver suggests a name
\* scoring at least 0.3, then goes on with the suggestion on a confirming
\* line and aborts on any other; aborts unprompted when nothing matches.
\* An aborted lookup never reaches its statement, so tables and indexes
\* stay as they were, and no step of a lookup adds a name to a table or to
\* an index.
C1_LookupProtocol == [][C1_OnCall /\ C1_OnAnswer /\ C1_Frame]_vars

C1_Witness ==
    /\ pc.op = "delete_config" /\ pc.phase = "done" /\ pc.asked
    /\ pc.line \in Yes /\ pc.decision = "Proceed" /\ pc.name # pc.input
    /\ pc.wrote = "delete"

C2_OnCall ==
    (pc.phase = "idle" /\ pc'.op \in CreationOps) =>
        LET r == Resolve(pc'.op, pc'.input)
        IN  /\ ResolvedAs(r) = "ExactMatch" =>
                /\ pc'.phase = "store" /\ pc'.decision = "Proceed"
                /\ pc'.name = pc'.input /\ ~pc'.asked
            /\ ResolvedAs(r) = "Suggestion" =>
                /\ pc'.phase = "confirm" /\ pc'.asked
                /\ pc'.name = r.suggested_name[1]
            /\ ResolvedAs(r) = "NoMatch" =>
                /\ pc'.phase = "store" /\ pc'.decision = "CreateNew"
                /\ pc'.name = pc'.input /\ ~pc'.asked

C2_OnAnswer ==
    (pc.phase = "confirm" /\ pc.op \in CreationOps /\ pc' # pc) =>
        /\ pc'.phase = "store"
        /\ IF pc'.line \in Yes
           THEN pc'.decision = "Proceed" /\ pc'.name = pc.name
           ELSE pc'.decision = "CreateNew" /\ pc'.name = pc.input

C2_OnStore ==
    (pc.phase = "store" /\ pc.op \in CreationOps /\ pc' # pc) =>
        LET table == TableOf(pc.op)
        IN  /\ pc.decision \in {"Proceed", "CreateNew"}
            /\ pc.decision = "Proceed" =>
                /\ pc.name \in conn[table]
                /\ conn' = conn /\ pc'.phase = "done" /\ pc'.wrote # "insert"
            /\ pc.decision = "CreateNew" =>
                /\ pc.input \notin conn[table]
                /\ conn' = [conn EXCEPT ![table] = @ \cup {pc.input}]
                /\ pc'.wrote = "insert"

\* C2: create_task and set_config work on the existing row and insert
\* nothing when the resolver finds the typed name exactly; prompt when it
\* suggests a name scoring at least 0.3, then work on the suggested row and
\* insert nothing on a confirming line, and insert the typed name on any
\* other; insert the typed name when nothing matches.  Every call reaches
\* its statement as exactly one of Proceed(existing name) and
\* CreateNew(typed name).
C2_CreationProtocol == [][C2_OnCall /\ C2_OnAnswer /\ C2_OnStore]_vars

C2_Witness ==
    /\ pc.op = "create_task" /\ pc.phase = "done" /\ pc.asked
    /\ pc.line \notin Yes /\ pc.decision = "CreateNew" /\ pc.wrote = "insert"

\* C3: create_aide has asked for confirmation before it inserts a name for
\* which the aide index holds a non-exact candidate scoring at least 0.3.
C3_CreateAideAsks ==
    (pc.op = "create_aide" /\ pc.phase = "index") =>
        (ResolvedAs(find_fuzzy_aide_match(pc.input)) = "Suggestion" => pc.asked)

\* C4: when no call is in progress, and when one has returned Ok, each
\* index holds exactly the names of its table.
C4_IndexNamesAreTableNames ==
    pc.phase \in {"idle", "done"} =>
        \A table \in DOMAIN conn : EntityNames(table) = conn[table]

C4_Witness ==
    /\ pc.op = "set_config" /\ pc.phase = "done" /\ pc.wrote = "insert"
    /\ Cardinality(conn.config_data) = 2

StoreThenIndexOps == {"create_task", "create_aide", "set_config", "delete_config"}

C16_Step ==
    \* a step of the call: once it has returned Err the call is over
    (pc.op \in StoreThenIndexOps /\ pc.phase # "failed" /\ pc' # pc) =>
        LET table == TableOf(pc.op)
        IN  \* the statement runs while the index is as it was; an INSERT or
            \* DELETE that took a row leads to the index update, anything
            \* else to the return
            /\ pc.phase = "store" =>
                /\ db' = db
                /\ conn' # conn =>
                    /\ pc'.phase = "index" /\ pc'.wrote \in {"insert", "delete"}
                /\ conn' = conn =>
                    /\ pc'.phase = "done" /\ pc'.wrote \notin {"insert", "delete"}
            \* the index changes only after a statement that took a row,
            \* with the tables already written, and only for that row's name
            /\ db' # db =>
                /\ pc.phase = "index" /\ conn' = conn
                /\ pc.wrote = "insert" =>
                    /\ pc.name \in conn[table]
                    /\ Range(db'[IndexOf(table)].entity_names)
                          = EntityNames(table) \cup {pc.name}
                /\ pc.wrote = "delete" =>
                    /\ pc.name \notin conn[table]
                    /\ Range(db'[IndexOf(table)].entity_names)
                          = EntityNames(table) \ {pc.name}
                /\ pc.wrote \in {"insert", "delete"}
                /\ \A other \in DOMAIN conn \ {table} :
                      db'[IndexOf(other)] = db[IndexOf(other)]
            /\ pc.phase \notin {"store", "index"} => conn' = conn /\ db' = db

\* C16: in create_task, create_aide, set_config and delete_config the INSERT
\* or DELETE runs before the index is touched, and the index is updated only
\* when that statement took a row: a skipped or refused INSERT and a DELETE
\* of no row go to the return with the index as it was.
C16_StoreBeforeIndex == [][C16_Step]_vars

\* C16 witness: create_aide returned after a refused INSERT, the index as
\* it was
C16_Witness ==
    /\ pc.op = "create_aide" /\ pc.phase = "done" /\ pc.wrote = "none"
    /\ pc.name \in conn.aides
    /\ EntityNames("aides") = conn.aides

Tables == {"tasks", "aides", "config_data"}

C26_Step ==
    /\ (pc.op \in StoreThenIndexOps /\ pc.phase # "failed") =>
          \A table \in Tables \ {TableOf(pc.op)} :
              db'[IndexOf(table)] = db[IndexOf(table)]
    /\ (pc.phase = "idle" /\ pc'.op \in LookupOps \cup CreationOps) =>
          LET own == db[IndexOf(TableOf(pc'.op))]
              r   == Resolve(pc'.op, pc'.input)
          IN  /\ r = find_fuzzy_match_in_index(pc'.input, own)
              /\ r.suggested_name # None =>
                    r.suggested_name[1] \in Range(own.entity_names)
              /\ pc'.phase = "confirm" => pc'.name \in Range(own.entity_names)

\* C26: a step of create_task, create_aide, set_config or delete_config
\* leaves the indexes of the other two classes as they are, in every field;
\* and the resolver a call of a class uses returns what the index of that
\* class gives, so a name it returns or asks about is a name of that index.
C26_IndexesIndependent == [][C26_Step]_vars

\* C26 witness: set_config has added a key to the config index that neither
\* other index holds, and neither of them is empty
C26_Witness ==
    /\ pc.op = "set_config" /\ pc.phase = "done" /\ pc.wrote = "insert"
    /\ pc.name \in Range(db.config_index.entity_names)
    /\ pc.name \notin Range(db.task_index.entity_names)
    /\ pc.name \notin Range(db.aide_index.entity_names)
    /\ db.task_index.entity_names # << >>
    /\ Len(db.aide_index.entity_names) >= 2

========
